---- MODULE Spec2Model ----
(***************************************************************************)
(* PostFlyers client: the track recorder hook (useTrackRecorder), the      *)
(* create-point batch (putTrackPoints), the session life cycle of App, the *)
(* live poller's grouping and the paginated history query                  *)
(* (listTrackPointsByTime).                                                *)
(*                                                                         *)
(* One action per event handler or per completion of an awaited call.      *)
(* React effects that a handler's state changes cause are run inside the   *)
(* action, in declaration order, cleanups first.                           *)
(*                                                                         *)
(* Abstractions: coordinates are one integer (metres along a line), so     *)
(* getDistanceMeters is the absolute difference; timestamps are integer    *)
(* milliseconds; speeds are integer mm/s; uuid() is a fresh counter.       *)
(***************************************************************************)
EXTENDS Integers, Sequences, FiniteSets, TLC

\* ---------------------------------------------------------------- bounds
MaxPoints == 3        \* samples delivered by the geolocation watch
MaxSessions == 2      \* sessions created by startSession
MaxFailures == 1      \* rejected create-point / mutation calls
MaxPolls == 1         \* ticks of the live poller
MaxPollPoints == 4    \* points in one live query result
MaxLimit == 3         \* limit given to listTrackPointsByTime
MaxMatches == 3       \* points of the backend that match the filter
MaxBatch == 3         \* items of one putTrackPoints call
MaxHistory == 3       \* points of a loaded history in the history panel
MaxClientCalls == 3   \* calls of getGraphQLClient
MaxStartCalls == 2    \* calls of start() by the hook's user

\* ------------------------------------------------------ program constants
FAST_FLUSH_INTERVAL_MS == 15000
SLOW_FLUSH_INTERVAL_MS == 60000
FAST_SYNC_INTERVAL_MS == 15000
SLOW_SYNC_INTERVAL_MS == 60000
SPEED_FAST_THRESHOLD_MPS == 5
SPEED_SLOW_THRESHOLD_MPS == 3
SLOW_MOVEMENT_MIN_DISTANCE_M == 25
SLOW_MOVEMENT_MIN_INTERVAL_MS == 180000
MAX_PAGE_SIZE == 1000

\* ------------------------------------------------------------ input sets
\* startSession falls back to one guest name per device when no nickname is typed
Nicknames == {"guest"}
Positions == {0, 30}
Deltas == {5000, 180000}
NoSpeed == -1
RawSpeeds == {NoSpeed, 2000, 3000, 4000, 5000, 6000}
Permissions == {"granted", "prompt", "denied"}
\* watch callbacks: a sample may repeat the previous sample's timestamp and
\* may report a negative speed; GeolocationPositionError has three codes
RepeatDeltas == {0, 5000}
SpeedReadings == {NoSpeed, -3000, 4000, 6000}
GeolocationErrors == {"PERMISSION_DENIED", "POSITION_UNAVAILABLE", "TIMEOUT"}
\* history panel: the nickname field of a stored point, as it was typed by
\* any client: padded, empty, missing, or the name of a property that every
\* object inherits from Object.prototype
NullNickname == "<null>"
PointNicknames == {"guest", " guest ", "", NullNickname, "constructor"}
\* credential bootstrap: API functions that await getGraphQLClient()
ApiCallers == {"putTrackPoints", "listTrackPointsByTime"}
\* putTrackPoints alone: the identifiers of the items of a call
BatchItems == 1..3
\* history query: the timestamps of the points the backend holds
HistoryTimestamps == 1..2
\* live poll: the caller's first session is track 1, peers are tracks 2, 3
TrackIds == 1..3
\* two points of each peer and one of the caller
PollPoints ==
  {point \in [trackId : TrackIds, ts : 1..2] :
     point.trackId = 1 => point.ts = 1}
\* the points of one query result, in any order
PollResults ==
  {r \in UNION {[1..n -> PollPoints] : n \in 0..MaxPollPoints} :
     \A i, j \in 1..Len(r) : i # j => r[i] # r[j]}

\* --------------------------------------------------------------- values
NoSession == [sessionId |-> 0, nickname |-> "", endedAt |-> FALSE]
NoPosition == [timestamp |-> 0, lat |-> 0, speed |-> NoSpeed]
PointIds == 1..(MaxPoints + 1)
NoError == [completed |-> <<>>, pending |-> <<>>]
NoSelection == ""
NoAuthResult == [caller |-> "", fetches |-> 0, credentials |-> FALSE,
                 outcome |-> "none"]

VARIABLES
  session,             \* App: useState<Session | null>
  locationPermission,  \* App: useState<LocationPermissionState>
  isSubmitting,        \* App: createSession in flight
  isEnding,            \* App: useState(false), set while endSession runs
  endPc,               \* App.endSession: "idle" or "mutation" (awaiting it)
  createInput,         \* App.startSession: input of the createSession call
  errorMessage,        \* App: last message given to setErrorMessage
  nextSessionId,       \* uuid() for sessions
  points,              \* recorder: displayed points
  bufferRef,           \* recorder: pending buffer
  isTracking,          \* recorder: useState(false)
  lastSyncAt,          \* recorder: 0 is undefined
  movementState,       \* recorder: "slow" | "fast"
  speedMps,            \* recorder: mm/s, NoSpeed is null
  watchIdRef,          \* recorder: 0 is null, 1 a registered watch
  handlerSession,      \* session captured by the registered handlePosition
  isFlushingRef,       \* recorder: in-flight guard
  lastPositionRef,     \* recorder: previous raw sample
  flushTimer,          \* interval of the armed flush timer, 0 when none
  calls,               \* putTrackPoints calls in flight: [items, saved]
  created,             \* backend: successful create-point calls per point
  firstOrder,          \* backend: point ids in order of first persistence
  online,              \* navigator.onLine
  now,                 \* wall clock, ms
  nextPointId,         \* uuid() for points
  failures,            \* rejected calls so far
  batchError,          \* putTrackPoints: what the call that ended last threw
  pollResult,          \* live poller: points returned by the last query
  grouped,             \* live poller: track id -> points of that track
  lastFetchedAt,       \* live poller: 0 is undefined
  historyLimit,        \* listTrackPointsByTime: variables.limit
  apiMatches,          \* backend: number of points matching the filter
  apiCursor,           \* backend: matching points returned so far
  historyItems,        \* listTrackPointsByTime: items
  historyRemaining,    \* listTrackPointsByTime: remaining
  historyPages,        \* listTrackPointsByTime: page requests issued
  historyPc,           \* listTrackPointsByTime: "idle", "loop" or "done"
  apiTs,               \* backend: timestamp of each matching point
  historyPoints,       \* App: useState<TrackPoint[]>([])
  putCall,             \* putTrackPoints alone: [items, saved (loop index)]
  putSaved,            \* putTrackPoints alone: the saved array
  putIssued,           \* backend: items of the create calls received
  putReturn,           \* putTrackPoints alone: the list it returned
  putPc,               \* "idle", "await", "returned" or "threw"
  panelPoints,         \* App: historyPoints as the history panel reads them
  selectedHistoryNickname, \* App: useState<string | null>(null)
  isConfigured,        \* amplify/client: Amplify.configure has run
  graphQLClient,       \* amplify/client: FALSE is null, TRUE the cached client
  authCalls,           \* getGraphQLClient calls in flight
  authStarted,         \* getGraphQLClient calls so far
  authResult,          \* how the getGraphQLClient call that ended last ended
  watches,             \* navigator.geolocation: watches registered, not cleared
  startCalls           \* calls of the hook's start() by its user

vars == <<session, locationPermission, isSubmitting, isEnding, endPc,
          createInput, errorMessage, nextSessionId, points, bufferRef,
          isTracking, lastSyncAt, movementState, speedMps, watchIdRef,
          handlerSession, isFlushingRef, lastPositionRef, flushTimer, calls,
          created, firstOrder, online, now, nextPointId, failures,
          batchError, pollResult, grouped, lastFetchedAt, historyLimit,
          apiMatches, apiCursor, historyItems, historyRemaining,
          historyPages, historyPc, apiTs, historyPoints, putCall, putSaved,
          putIssued, putReturn, putPc, panelPoints,
          selectedHistoryNickname, isConfigured, graphQLClient, authCalls,
          authStarted, authResult, watches, startCalls>>

appVars == <<session, locationPermission, isSubmitting, isEnding, endPc,
             createInput, nextSessionId>>
sampleVars == <<points, movementState, speedMps, lastPositionRef, now,
                nextPointId>>
watchVars == <<isTracking, watchIdRef, handlerSession, flushTimer, watches,
               startCalls>>
netVars == <<created, firstOrder>>
pollVars == <<pollResult, grouped, lastFetchedAt>>
historyVars == <<historyLimit, apiMatches, apiCursor, historyItems,
                 historyRemaining, historyPages, historyPc, apiTs,
                 historyPoints>>
putVars == <<putCall, putSaved, putIssued, putReturn, putPc>>
panelVars == <<panelPoints, selectedHistoryNickname>>
authVars == <<isConfigured, graphQLClient, authCalls, authStarted,
              authResult>>
queryVars == <<pollVars, historyVars, putVars, panelVars, authVars>>
recorderVars == <<appVars, errorMessage, sampleVars, bufferRef, lastSyncAt,
                  watchVars, isFlushingRef, calls, netVars, online, failures,
                  batchError>>

\* ------------------------------------------------------- pure functions
Abs(x) == IF x < 0 THEN -x ELSE x

isSessionActive(s) == s # NoSession /\ ~s.endedAt

\* metres between two coordinates
getDistanceMeters(from, to) == Abs(to - from)

\* a timer period that ignores the movement state
flushIntervalAlwaysSlow(m) == SLOW_FLUSH_INTERVAL_MS

flushIntervalMs(m) ==
  IF m = "fast" THEN FAST_FLUSH_INTERVAL_MS ELSE SLOW_FLUSH_INTERVAL_MS

\* a classification with one threshold and no memory of the previous state
nextMovementStateNoHysteresis(previous, speed) ==
  IF speed # NoSpeed /\ speed >= SPEED_FAST_THRESHOLD_MPS * 1000
  THEN "fast"
  ELSE "slow"

\* a polling interval that ignores the movement state
liveTrackPollingAlwaysSlow(m) == SLOW_SYNC_INTERVAL_MS

\* App: pollingIntervalMs handed to useLiveTracks
liveTrackPollingInterval(m) ==
  IF m = "fast" THEN FAST_SYNC_INTERVAL_MS ELSE SLOW_SYNC_INTERVAL_MS

\* applySpeedMeasurement: the functional update given to setMovementState
nextMovementState(previous, speed) ==
  IF speed = NoSpeed THEN "slow"
  ELSE IF speed >= SPEED_FAST_THRESHOLD_MPS * 1000 THEN "fast"
  ELSE IF speed <= SPEED_SLOW_THRESHOLD_MPS * 1000 THEN "slow"
  ELSE previous

\* a speed selection that takes any reported number
derivedSpeedAcceptsNegative(rawSpeed, previousPosition, position) ==
  IF rawSpeed # NoSpeed THEN rawSpeed
  ELSE IF previousPosition # NoPosition
          /\ position.timestamp - previousPosition.timestamp > 0
       THEN (getDistanceMeters(previousPosition.lat, position.lat) * 1000000)
              \div (position.timestamp - previousPosition.timestamp)
       ELSE NoSpeed

\* handlePosition: the speed handed to applySpeedMeasurement (mm/s)
derivedSpeed(rawSpeed, previousPosition, position) ==
  IF rawSpeed # NoSpeed /\ rawSpeed >= 0 THEN rawSpeed
  ELSE IF previousPosition # NoPosition
          /\ position.timestamp - previousPosition.timestamp > 0
       THEN (getDistanceMeters(previousPosition.lat, position.lat) * 1000000)
              \div (position.timestamp - previousPosition.timestamp)
       ELSE NoSpeed

\* a point that does not carry the sample's timestamp
makePointUnstamped(sess, id, position) ==
  [trackId |-> sess.sessionId, pointId |-> id, ts |-> 0,
   lat |-> position.lat, nickname |-> sess.nickname]

\* handlePosition: the point built from a sample by the registered handler
makePoint(sess, id, position) ==
  [trackId |-> sess.sessionId, pointId |-> id, ts |-> position.timestamp,
   lat |-> position.lat, nickname |-> sess.nickname]

\* a buffer that takes no second point at the place of its last one
appendPointUnlessStationary(buffer, nextPoint) ==
  IF Len(buffer) > 0 /\ buffer[Len(buffer)].lat = nextPoint.lat
  THEN buffer
  ELSE Append(buffer, nextPoint)

\* a buffer that takes the newest point at its head
prependPoint(buffer, nextPoint) == <<nextPoint>> \o buffer

\* handlePosition: bufferRef.current = [...bufferRef.current, nextPoint]
appendPoint(buffer, nextPoint) == Append(buffer, nextPoint)

\* a displayed list that shows the newest point first
showPointFirst(previous, nextPoint) == <<nextPoint>> \o previous

\* handlePosition: setPoints((previous) => [...previous, nextPoint])
showPoint(previous, nextPoint) == Append(previous, nextPoint)

\* flushNow without the test of the in-flight guard
flushNowStartsUnguarded(sess, flushing, pending, isOnline) ==
  /\ sess # NoSession
  /\ Len(pending) > 0
  /\ isOnline

\* flushNow without the test of navigator.onLine
flushNowStartsOffline(sess, flushing, pending, isOnline) ==
  /\ sess # NoSession
  /\ ~flushing
  /\ Len(pending) > 0

\* flushNow: the early returns; TRUE when the call goes on to putTrackPoints
flushNowStarts(sess, flushing, pending, isOnline) ==
  /\ sess # NoSession
  /\ ~flushing
  /\ Len(pending) > 0
  /\ isOnline

\* a loop that walks the items from the end
nextItemFromEnd(call) == call.items[Len(call.items) - call.saved]

\* putTrackPoints: the item sent by the loop's next iteration
nextItem(call) == call.items[call.saved + 1]

\* an error whose pending subset starts after the item that failed
batchErrorWithoutFailedItem(call) ==
  [completed |-> SubSeq(call.items, 1, call.saved),
   pending |-> SubSeq(call.items, call.saved + 2, Len(call.items))]

\* putTrackPoints: the TrackPointBatchError thrown when the call for item
\* index fails: [...saved] and items.slice(index)
batchErrorOf(call) ==
  [completed |-> SubSeq(call.items, 1, call.saved),
   pending |-> SubSeq(call.items, call.saved + 1, Len(call.items))]

RemoveAt(seq, i) == SubSeq(seq, 1, i - 1) \o SubSeq(seq, i + 1, Len(seq))

\* a flush that sends the newest buffered point only
StartFlushNewestOnly(go, pending) ==
  /\ isFlushingRef' = (isFlushingRef \/ go)
  /\ calls' = IF go
              THEN Append(calls, [items |-> SubSeq(pending, Len(pending),
                                                   Len(pending)),
                                  saved |-> 0])
              ELSE calls

\* flushNow up to its first await: sets the guard and calls putTrackPoints
StartFlush(go, pending) ==
  /\ isFlushingRef' = (isFlushingRef \/ go)
  /\ calls' = IF go THEN Append(calls, [items |-> pending, saved |-> 0])
              ELSE calls

\* ------------------------------------------------------------------ Init
Init ==
  /\ session = NoSession
  /\ locationPermission = "checking"
  /\ isSubmitting = FALSE
  /\ isEnding = FALSE
  /\ endPc = "idle"
  /\ createInput = NoSession
  /\ errorMessage = "none"
  /\ nextSessionId = 1
  /\ points = <<>>
  /\ bufferRef = <<>>
  /\ isTracking = FALSE
  /\ lastSyncAt = 0
  /\ movementState = "slow"
  /\ speedMps = NoSpeed
  /\ watchIdRef = 0
  /\ handlerSession = NoSession
  /\ isFlushingRef = FALSE
  /\ lastPositionRef = NoPosition
  /\ flushTimer = 0
  /\ calls = <<>>
  /\ created = [id \in PointIds |-> 0]
  /\ firstOrder = <<>>
  /\ online = TRUE
  /\ now = 0
  /\ nextPointId = 1
  /\ failures = 0
  /\ batchError = NoError
  /\ pollResult = <<>>
  /\ grouped = <<>>
  /\ lastFetchedAt = 0
  /\ historyLimit = 0
  /\ apiMatches = 0
  /\ apiCursor = 0
  /\ historyItems = <<>>
  /\ historyRemaining = 0
  /\ historyPages = 0
  /\ historyPc = "idle"
  /\ apiTs = <<>>
  /\ historyPoints = <<>>
  /\ putCall = [items |-> <<>>, saved |-> 0]
  /\ putSaved = <<>>
  /\ putIssued = <<>>
  /\ putReturn = <<>>
  /\ putPc = "idle"
  /\ panelPoints = <<>>
  /\ selectedHistoryNickname = NoSelection
  /\ isConfigured = FALSE
  /\ graphQLClient = FALSE
  /\ authCalls = <<>>
  /\ authStarted = 0
  /\ authResult = NoAuthResult
  /\ watches = 0
  /\ startCalls = 0

\* ------------------------------------------------------- recorder events

\* handlePosition(position), then the flush-timer effect when the sample
\* changed flushIntervalMs (cleanup: flushNow; body: a new timer)
HandlePosition(lat, dt, rawSpeed) ==
  /\ watchIdRef = 1
  /\ handlerSession # NoSession
  /\ nextPointId <= MaxPoints
  /\ LET position == [timestamp |-> now + dt, lat |-> lat,
                      speed |-> rawSpeed]
         nextPoint == makePoint(handlerSession, nextPointId, position)
         speed == derivedSpeed(rawSpeed, lastPositionRef, position)
         nextState == nextMovementState(movementState, speed)
         rearm == isTracking
                    /\ flushIntervalMs(nextState) # flushIntervalMs(movementState)
     IN /\ bufferRef' = appendPoint(bufferRef, nextPoint)
        /\ points' = showPoint(points, nextPoint)
        /\ lastPositionRef' = position
        /\ speedMps' = speed
        /\ movementState' = nextState
        /\ now' = now + dt
        /\ nextPointId' = nextPointId + 1
        /\ flushTimer' = IF isTracking THEN flushIntervalMs(nextState) ELSE 0
        /\ StartFlush(rearm /\ flushNowStarts(session, isFlushingRef,
                                               bufferRef', online),
                      bufferRef')
  /\ UNCHANGED <<queryVars, batchError, appVars, errorMessage, isTracking,
                 lastSyncAt, watchIdRef, handlerSession, watches, startCalls,
                 netVars, online, failures>>

\* one message for every geolocation failure
geolocationMessageGeneric(code) == "geolocation failed"

\* handleError: the message chosen for error.code
geolocationMessage(code) ==
  IF code = "PERMISSION_DENIED" THEN "geolocation not permitted"
  ELSE IF code = "POSITION_UNAVAILABLE" THEN "position unavailable"
  ELSE IF code = "TIMEOUT" THEN "geolocation timeout"
  ELSE "geolocation failed"

\* handleError(error), the error callback of the registered watch
HandleError(code) ==
  /\ watchIdRef = 1
  /\ errorMessage' = geolocationMessage(code)
  /\ UNCHANGED <<queryVars, batchError, appVars, sampleVars, bufferRef,
                 lastSyncAt, watchVars, isFlushingRef, calls, netVars,
                 online, failures>>

\* the setInterval callback of the flush-timer effect: void flushNow()
FlushTimerTick ==
  /\ flushTimer # 0
  /\ StartFlush(flushNowStarts(session, isFlushingRef, bufferRef, online),
                bufferRef)
  /\ UNCHANGED <<queryVars, batchError, appVars, errorMessage, sampleVars,
                 bufferRef, lastSyncAt, watchVars, netVars, online, failures>>

\* the window 'online' listener: void flushNow()
OnlineEvent ==
  /\ ~online
  /\ online' = TRUE
  /\ StartFlush(flushNowStarts(session, isFlushingRef, bufferRef, TRUE),
                bufferRef)
  /\ UNCHANGED <<queryVars, batchError, appVars, errorMessage, sampleVars,
                 bufferRef, lastSyncAt, watchVars, netVars, failures>>

\* the runtime loses connectivity; no listener is registered for it
OfflineEvent ==
  /\ online
  /\ online' = FALSE
  /\ UNCHANGED <<queryVars, batchError, appVars, errorMessage, sampleVars,
                 bufferRef, lastSyncAt, watchVars, isFlushingRef, calls,
                 netVars, failures>>

\* one create-point call of putTrackPoints call i resolves; after the last
\* item putTrackPoints returns and flushNow resumes after its await
CreatePointOk(i) ==
  /\ i \in 1..Len(calls)
  /\ online
  /\ LET call == calls[i]
         item == nextItem(call)
         done == call.saved + 1 = Len(call.items)
     IN /\ created' = [created EXCEPT ![item.pointId] = @ + 1]
        /\ firstOrder' = IF created[item.pointId] = 0
                         THEN Append(firstOrder, item.pointId)
                         ELSE firstOrder
        /\ calls' = IF done THEN RemoveAt(calls, i)
                    ELSE [calls EXCEPT ![i].saved = @ + 1]
        /\ bufferRef' = IF done THEN <<>> ELSE bufferRef
        /\ lastSyncAt' = IF done THEN now ELSE lastSyncAt
        /\ isFlushingRef' = IF done THEN FALSE ELSE isFlushingRef
        /\ batchError' = IF done THEN NoError ELSE batchError
  /\ UNCHANGED <<queryVars, appVars, errorMessage, sampleVars, watchVars,
                 online, failures>>

\* a failed flush that does not release the in-flight guard
CreatePointFailKeepsGuard(i) ==
  /\ i \in 1..Len(calls)
  /\ failures < MaxFailures
  /\ failures' = failures + 1
  /\ batchError' = batchErrorOf(calls[i])
  /\ calls' = RemoveAt(calls, i)
  /\ errorMessage' = "flush"
  /\ UNCHANGED <<queryVars, appVars, sampleVars, bufferRef, lastSyncAt,
                 watchVars, isFlushingRef, netVars, online>>

\* one create-point call of putTrackPoints call i rejects: putTrackPoints
\* throws, flushNow's catch reports and its finally releases the guard
CreatePointFail(i) ==
  /\ i \in 1..Len(calls)
  /\ failures < MaxFailures
  /\ failures' = failures + 1
  /\ batchError' = batchErrorOf(calls[i])
  /\ calls' = RemoveAt(calls, i)
  /\ isFlushingRef' = FALSE
  /\ errorMessage' = "flush"
  /\ UNCHANGED <<queryVars, appVars, sampleVars, bufferRef, lastSyncAt,
                 watchVars, netVars, online>>

\* ---------------------------------------------------- recorder callbacks

\* stopWatch: clearWatch(watchIdRef.current) when the ref holds a watch
clearWatch(registered, watchId) ==
  IF watchId # 0 THEN registered - 1 ELSE registered

\* the autoStart effect: if (!session || !autoStart) return; void start()
autoStartEffectRuns(sess, autoStart) == sess # NoSession /\ autoStart

\* a start() that registers a watch whether or not one is registered
startRegistersAgain(sess, watchId) == sess # NoSession

\* start(): TRUE when it reaches watchPosition (geolocation is supported)
startRegisters(sess, watchId) == sess # NoSession /\ watchId = 0

\* a stop() that clears the watch without a flush attempt
StopRecorderWithoutFlush ==
  /\ watchIdRef' = 0
  /\ watches' = clearWatch(watches, watchIdRef)
  /\ UNCHANGED startCalls
  /\ handlerSession' = NoSession
  /\ isTracking' = FALSE
  /\ movementState' = "slow"
  /\ speedMps' = NoSpeed
  /\ lastPositionRef' = NoPosition
  /\ flushTimer' = 0
  /\ UNCHANGED <<isFlushingRef, calls>>

\* a stop() that abandons the flush in flight
StopRecorderCancelsFlush ==
  /\ watchIdRef' = 0
  /\ watches' = clearWatch(watches, watchIdRef)
  /\ UNCHANGED startCalls
  /\ handlerSession' = NoSession
  /\ isTracking' = FALSE
  /\ movementState' = "slow"
  /\ speedMps' = NoSpeed
  /\ lastPositionRef' = NoPosition
  /\ flushTimer' = 0
  /\ isFlushingRef' = FALSE
  /\ calls' = <<>>

\* a stop() that remembers the last raw sample
StopRecorderKeepsLastPosition ==
  /\ watchIdRef' = 0
  /\ watches' = clearWatch(watches, watchIdRef)
  /\ UNCHANGED startCalls
  /\ handlerSession' = NoSession
  /\ isTracking' = FALSE
  /\ movementState' = "slow"
  /\ speedMps' = NoSpeed
  /\ lastPositionRef' = lastPositionRef
  /\ flushTimer' = 0
  /\ StartFlush(flushNowStarts(session, isFlushingRef, bufferRef, online),
                bufferRef)

\* stop(): stopWatch() and void flushNow(); then the flush-timer effect's
\* cleanup (clearInterval and a second void flushNow(), which finds the
\* guard, the buffer and navigator.onLine as the first call left them)
StopRecorder ==
  /\ watchIdRef' = 0
  /\ watches' = clearWatch(watches, watchIdRef)
  /\ UNCHANGED startCalls
  /\ handlerSession' = NoSession
  /\ isTracking' = FALSE
  /\ movementState' = "slow"
  /\ speedMps' = NoSpeed
  /\ lastPositionRef' = NoPosition
  /\ flushTimer' = 0
  /\ StartFlush(flushNowStarts(session, isFlushingRef, bufferRef, online),
                bufferRef)

\* the effects that run when App's session state becomes newSession:
\* flush-timer cleanup (old flushNow), autoStart effect (new start), new timer
SessionCommit(newSession) ==
  LET reg == /\ autoStartEffectRuns(newSession, locationPermission = "granted")
             /\ startRegisters(newSession, watchIdRef)
  IN /\ watchIdRef' = IF reg THEN 1 ELSE watchIdRef
     /\ watches' = IF reg THEN watches + 1 ELSE watches
     /\ UNCHANGED startCalls
     /\ handlerSession' = IF reg THEN newSession ELSE handlerSession
     /\ isTracking' = (isTracking \/ reg)
     /\ flushTimer' = IF isTracking \/ reg THEN flushIntervalMs(movementState)
                      ELSE 0
     /\ StartFlush(isTracking /\ flushNowStarts(session, isFlushingRef,
                                                 bufferRef, online),
                   bufferRef)

\* ------------------------------------------------------------ App events

\* setLocationPermission(p) from the permission query, its onchange or
\* requestLocationAccess; then the autoStart effect and App's effect that
\* stops the recorder when permission is not granted
PermissionChange(p) ==
  /\ p # locationPermission
  /\ locationPermission' = p
  /\ LET autoStart == p = "granted"
         reg == /\ autoStart # (locationPermission = "granted")
                /\ autoStartEffectRuns(session, autoStart)
                /\ startRegisters(session, watchIdRef)
     IN IF p # "granted" /\ isTracking
        THEN StopRecorder
        ELSE /\ watchIdRef' = IF reg THEN 1 ELSE watchIdRef
             /\ watches' = IF reg THEN watches + 1 ELSE watches
             /\ UNCHANGED startCalls
             /\ handlerSession' = IF reg THEN session ELSE handlerSession
             /\ isTracking' = (isTracking \/ reg)
             /\ flushTimer' = IF isTracking \/ reg
                              THEN flushIntervalMs(movementState) ELSE 0
             /\ UNCHANGED <<movementState, speedMps, lastPositionRef,
                            isFlushingRef, calls>>
  /\ UNCHANGED <<queryVars, batchError, session, isSubmitting, isEnding,
                 endPc, createInput, nextSessionId, errorMessage, points,
                 bufferRef, lastSyncAt, netVars, online, now, nextPointId,
                 failures>>

\* start() called by the hook's user, on a device with or without
\* geolocation support (a device that holds a watch has it): the two early
\* returns report through onError, a
\* registered watch makes it return at once, and otherwise it registers a
\* watch; then the flush-timer effect arms the timer, and App's effect
\* stops the recorder again when permission is not granted
StartCall(supported) ==
  /\ startCalls < MaxStartCalls
  /\ watchIdRef # 0 => supported
  /\ startCalls' = startCalls + 1
  /\ IF session = NoSession \/ ~supported
     THEN /\ errorMessage' = IF session = NoSession THEN "start: no session"
                             ELSE "start: unsupported"
          /\ UNCHANGED <<watchIdRef, watches, handlerSession, isTracking,
                         flushTimer, movementState, speedMps,
                         lastPositionRef, isFlushingRef, calls>>
     ELSE IF ~startRegisters(session, watchIdRef)
     THEN UNCHANGED <<errorMessage, watchIdRef, watches, handlerSession,
                      isTracking, flushTimer, movementState, speedMps,
                      lastPositionRef, isFlushingRef, calls>>
     ELSE IF locationPermission = "granted"
     THEN /\ watchIdRef' = 1
          /\ watches' = watches + 1
          /\ handlerSession' = session
          /\ isTracking' = TRUE
          /\ flushTimer' = flushIntervalMs(movementState)
          /\ UNCHANGED <<errorMessage, movementState, speedMps,
                         lastPositionRef, isFlushingRef, calls>>
     ELSE /\ watchIdRef' = 0
          /\ watches' = clearWatch(watches + 1, 1)
          /\ handlerSession' = NoSession
          /\ isTracking' = FALSE
          /\ movementState' = "slow"
          /\ speedMps' = NoSpeed
          /\ lastPositionRef' = NoPosition
          /\ flushTimer' = 0
          /\ StartFlush(flushNowStarts(session, isFlushingRef, bufferRef,
                                       online),
                        bufferRef)
          /\ UNCHANGED errorMessage
  /\ UNCHANGED <<queryVars, batchError, appVars, points, now, nextPointId,
                 bufferRef, lastSyncAt, netVars, online, failures>>

\* startSession up to its await of createSession
StartSessionSubmit(nick) ==
  /\ ~isSessionActive(session)
  /\ ~isSubmitting
  /\ nextSessionId <= MaxSessions
  /\ createInput' = [sessionId |-> nextSessionId, nickname |-> nick,
                     endedAt |-> FALSE]
  /\ nextSessionId' = nextSessionId + 1
  /\ isSubmitting' = TRUE
  /\ errorMessage' = "none"
  /\ UNCHANGED <<queryVars, batchError, session, locationPermission, isEnding,
                 endPc, sampleVars, bufferRef, lastSyncAt, watchVars,
                 isFlushingRef, calls, netVars, online, failures>>

\* createSession resolves: setSession(newSession)
CreateSessionOk ==
  /\ isSubmitting
  /\ online
  /\ session' = createInput
  /\ createInput' = NoSession
  /\ isSubmitting' = FALSE
  /\ SessionCommit(createInput)
  /\ UNCHANGED <<queryVars, batchError, locationPermission, isEnding, endPc,
                 nextSessionId, errorMessage, sampleVars, bufferRef,
                 lastSyncAt, netVars, online, failures>>

\* createSession rejects
CreateSessionFail ==
  /\ isSubmitting
  /\ failures < MaxFailures
  /\ failures' = failures + 1
  /\ createInput' = NoSession
  /\ isSubmitting' = FALSE
  /\ errorMessage' = "create"
  /\ UNCHANGED <<queryVars, batchError, session, locationPermission, isEnding,
                 endPc, nextSessionId, sampleVars, bufferRef, lastSyncAt,
                 watchVars, isFlushingRef, calls, netVars, online>>

\* endSession up to its await of endSessionMutation: stopRecorder(), then
\* await flushNow(), which returns at once (stop() has just run the same
\* flushNow: either the guard is now set, or the buffer is empty, or the
\* client is offline), then the mutation call
EndSessionClick ==
  /\ isSessionActive(session)
  /\ ~isEnding
  /\ isEnding' = TRUE
  /\ errorMessage' = "none"
  /\ StopRecorder
  /\ endPc' = "mutation"
  /\ UNCHANGED <<queryVars, batchError, session, locationPermission,
                 isSubmitting, createInput, nextSessionId, points, bufferRef,
                 lastSyncAt, netVars, online, now, nextPointId, failures>>

\* endSessionMutation resolves: setSession(ended)
EndSessionOk ==
  /\ endPc = "mutation"
  /\ online
  /\ session' = [session EXCEPT !.endedAt = TRUE]
  /\ isEnding' = FALSE
  /\ endPc' = "idle"
  /\ SessionCommit([session EXCEPT !.endedAt = TRUE])
  /\ UNCHANGED <<queryVars, batchError, locationPermission, isSubmitting,
                 createInput, nextSessionId, errorMessage, sampleVars,
                 bufferRef, lastSyncAt, netVars, online, failures>>

\* endSessionMutation rejects
EndSessionFail ==
  /\ endPc = "mutation"
  /\ failures < MaxFailures
  /\ failures' = failures + 1
  /\ isEnding' = FALSE
  /\ endPc' = "idle"
  /\ errorMessage' = "end"
  /\ UNCHANGED <<queryVars, batchError, session, locationPermission,
                 isSubmitting, createInput, nextSessionId, sampleVars,
                 bufferRef, lastSyncAt, watchVars, isFlushingRef, calls,
                 netVars, online>>

\* --------------------------------------------------------- specification
\* samples of the recorder's life-cycle specification: a standstill and a
\* 30 m move, 5 s apart, without a device-reported speed
Sample ==
  \E lat \in Positions : HandlePosition(lat, 5000, NoSpeed)

CreatePointResolves == \E i \in 1..Len(calls) : CreatePointOk(i)
CreatePointRejects == \E i \in 1..Len(calls) : CreatePointFail(i)

Next ==
  \/ Sample
  \/ FlushTimerTick
  \/ OnlineEvent
  \/ OfflineEvent
  \/ CreatePointResolves
  \/ CreatePointRejects
  \/ \E p \in Permissions : PermissionChange(p)
  \/ \E nick \in Nicknames : StartSessionSubmit(nick)
  \/ CreateSessionOk
  \/ CreateSessionFail
  \/ EndSessionClick
  \/ EndSessionOk
  \/ EndSessionFail

Spec == Init /\ [][Next]_vars


\* ------------------------------------------------------------ live poller

\* App: excludeTrackId handed to useLiveTracks (0 is undefined)
excludeTrackId(sess) == sess.sessionId

\* a marker taken from the first point of a group
peerMarkerFirst(trackPoints) == trackPoints[1]

\* buildPeerCollection: the point drawn as the peer's position marker
peerMarker(trackPoints) == trackPoints[Len(trackPoints)]

\* the query result without the points of the excluded track
excludeTrack(result, excluded) ==
  SelectSeq(result, LAMBDA point : point.trackId # excluded)

insertByTs(sorted, point) ==
  LET k == Cardinality({i \in 1..Len(sorted) : sorted[i].ts <= point.ts})
  IN SubSeq(sorted, 1, k) \o <<point>> \o SubSeq(sorted, k + 1, Len(sorted))

RECURSIVE sortByTs(_)
\* the points ordered by time
sortByTs(result) ==
  IF result = <<>> THEN <<>>
  ELSE insertByTs(sortByTs(SubSeq(result, 1, Len(result) - 1)),
                  result[Len(result)])

\* the mapping from track identifier to the points of that track
groupByTrack(result) ==
  [t \in {result[i].trackId : i \in 1..Len(result)} |->
     SelectSeq(result, LAMBDA point : point.trackId = t)]

\* a poll tick whose query succeeds: exclude, sort, group, record the time
PollOk(result) ==
  /\ now < MaxPolls * SLOW_SYNC_INTERVAL_MS
  /\ now' = now + liveTrackPollingInterval(movementState)
  /\ pollResult' = result
  /\ grouped' = groupByTrack(sortByTs(excludeTrack(result,
                                                   excludeTrackId(session))))
  /\ lastFetchedAt' = now'
  /\ UNCHANGED <<authVars, panelVars, putVars, historyVars, appVars, errorMessage, points,
                 movementState,
                 speedMps, lastPositionRef, nextPointId, bufferRef,
                 lastSyncAt, watchVars, isFlushingRef, calls, netVars, online,
                 failures, batchError>>

\* a poll tick whose query fails: the error callback, no state update
PollFail ==
  /\ now < MaxPolls * SLOW_SYNC_INTERVAL_MS
  /\ now' = now + liveTrackPollingInterval(movementState)
  /\ errorMessage' = "poll"
  /\ UNCHANGED <<queryVars, appVars, points, movementState, speedMps,
                 lastPositionRef, nextPointId, bufferRef, lastSyncAt,
                 watchVars, isFlushingRef, calls, netVars, online, failures,
                 batchError>>

PollNext ==
  \/ \E result \in PollResults : PollOk(result)
  \/ PollFail
  \/ \E nick \in Nicknames : StartSessionSubmit(nick)
  \/ CreateSessionOk

PollSpec == Init /\ [][PollNext]_vars

\* ---------------------------------------------------------- history query

Min(a, b) == IF a < b THEN a ELSE b
Max(a, b) == IF a > b THEN a ELSE b

\* a page request that asks for a full page whatever remains
pageLimitIgnoresRemaining(remaining) == MAX_PAGE_SIZE

\* listTrackPointsByTime: the limit of one page request
pageLimit(remaining) == Min(Max(remaining, 1), MAX_PAGE_SIZE)

\* the points the query returned: the collected items with their timestamps
historyData(items, ts) ==
  [i \in 1..Len(items) |-> [pointId |-> items[i], ts |-> ts[items[i]]]]

\* history points shown in the order the query returned them
sortHistoryKeepsQueryOrder(data) == data

\* loadHistory: [...data].sort((a, b) => time of a.ts - time of b.ts)
sortHistory(data) == sortByTs(data)

\* loadHistory calls listTrackPointsByTime with a limit; the loop is entered
\* and left at once when remaining <= 0, and the empty result is shown
LoadHistoryStart(limit, matches) ==
  /\ historyPc # "loop"
  /\ historyLimit' = limit
  /\ apiMatches' = matches
  /\ \E ts \in [1..matches -> HistoryTimestamps] : apiTs' = ts
  /\ apiCursor' = 0
  /\ historyItems' = <<>>
  /\ historyRemaining' = limit
  /\ historyPages' = 0
  /\ historyPc' = IF limit <= 0 THEN "done" ELSE "loop"
  /\ historyPoints' = IF limit <= 0 THEN sortHistory(<<>>) ELSE historyPoints
  /\ errorMessage' = "none"
  /\ UNCHANGED <<authVars, panelVars, putVars, pollVars, appVars, sampleVars, bufferRef,
                 lastSyncAt,
                 watchVars, isFlushingRef, calls, netVars, online, failures,
                 batchError>>

\* loadHistory returns early on a missing date or on a start date after the
\* end date: a message and no query
LoadHistoryRejected ==
  /\ historyPc # "loop"
  /\ errorMessage' = "history input"
  /\ UNCHANGED <<queryVars, appVars, sampleVars, bufferRef, lastSyncAt,
                 watchVars, isFlushingRef, calls, netVars, online, failures,
                 batchError>>

\* a loop that goes on after a page without items when it has a token
HistoryPageSkipsEmpty(count, token) ==
  /\ historyPc = "loop"
  /\ count \in 0..Min(pageLimit(historyRemaining), apiMatches - apiCursor)
  /\ apiCursor + count < apiMatches => token
  /\ historyItems' = historyItems
                       \o [i \in 1..count |-> apiCursor + i]
  /\ apiCursor' = apiCursor + count
  /\ historyRemaining' = historyRemaining - count
  /\ historyPages' = historyPages + 1
  /\ historyPc' = IF historyRemaining' <= 0 THEN "done"
                  ELSE IF ~token THEN "done"
                  ELSE "loop"
  /\ historyPoints' = IF historyPc' = "done"
                      THEN sortHistory(historyData(historyItems', apiTs))
                      ELSE historyPoints
  /\ UNCHANGED <<authVars, panelVars, putVars, pollVars, historyLimit, apiMatches, apiTs,
                 recorderVars>>

\* one iteration of the loop: the page request resolves with count items,
\* the next matching points in the backend's order, and with or without a
\* continuation token; a page never lacks a token while matches remain;
\* when the loop ends loadHistory sorts the result and shows it
HistoryPage(count, token) ==
  /\ historyPc = "loop"
  /\ count \in 0..Min(pageLimit(historyRemaining), apiMatches - apiCursor)
  /\ apiCursor + count < apiMatches => token
  /\ historyItems' = historyItems
                       \o [i \in 1..count |-> apiCursor + i]
  /\ apiCursor' = apiCursor + count
  /\ historyRemaining' = historyRemaining - count
  /\ historyPages' = historyPages + 1
  /\ historyPc' = IF historyRemaining' <= 0 THEN "done"
                  ELSE IF ~token \/ count = 0 THEN "done"
                  ELSE "loop"
  /\ historyPoints' = IF historyPc' = "done"
                      THEN sortHistory(historyData(historyItems', apiTs))
                      ELSE historyPoints
  /\ UNCHANGED <<authVars, panelVars, putVars, pollVars, historyLimit, apiMatches, apiTs,
                 recorderVars>>

\* the page request fails: listTrackPointsByTime throws, loadHistory reports
HistoryPageFail ==
  /\ historyPc = "loop"
  /\ historyPc' = "failed"
  /\ historyPages' = historyPages + 1
  /\ errorMessage' = "history"
  /\ UNCHANGED <<authVars, panelVars, putVars, pollVars, historyLimit, apiMatches, apiCursor,
                 historyItems,
                 historyRemaining, apiTs, historyPoints, appVars, sampleVars,
                 bufferRef, lastSyncAt,
                 watchVars, isFlushingRef, calls, netVars, online, failures,
                 batchError>>

HistoryNext ==
  \/ \E limit \in 0..MaxLimit, matches \in 0..MaxMatches :
       LoadHistoryStart(limit, matches)
  \/ \E count \in 0..MaxLimit, token \in BOOLEAN : HistoryPage(count, token)
  \/ HistoryPageFail
  \/ LoadHistoryRejected

HistorySpec == Init /\ [][HistoryNext]_vars

\* the API answers every page request
HistoryPageResolves ==
  \/ \E count \in 0..MaxLimit, token \in BOOLEAN : HistoryPage(count, token)
  \/ HistoryPageFail

\* one call of listTrackPointsByTime, from its entry to its return or throw
HistoryCallNext ==
  \/ /\ historyPc = "idle"
     /\ \E limit \in 0..MaxLimit, matches \in 0..MaxMatches :
          LoadHistoryStart(limit, matches)
  \/ HistoryPageResolves

HistoryFairSpec ==
  Init /\ [][HistoryCallNext]_vars /\ WF_vars(HistoryPageResolves)

\* ------------------------------------------------- putTrackPoints alone

\* the inputs of a call: any list of up to MaxBatch items, repeats included
BatchInputs ==
  UNION {[1..n -> {[pointId |-> id] : id \in BatchItems}] : n \in 0..MaxBatch}

\* putTrackPoints(items) up to its first await: an empty input returns [] at
\* once, otherwise the loop issues the create call of the first item
PutTrackPoints(items) ==
  /\ putPc # "await"
  /\ putCall' = [items |-> items, saved |-> 0]
  /\ putSaved' = <<>>
  /\ putReturn' = <<>>
  /\ putIssued' = IF items = <<>> THEN <<>> ELSE <<nextItem(putCall')>>
  /\ putPc' = IF items = <<>> THEN "returned" ELSE "await"
  /\ UNCHANGED <<authVars, panelVars, pollVars, historyVars, recorderVars>>

\* the awaited create call resolves: its result is pushed on saved, then the
\* loop issues the next call or, after the last item, the function returns
PutItemOk ==
  /\ putPc = "await"
  /\ LET done == putCall.saved + 1 = Len(putCall.items)
     IN /\ putSaved' = Append(putSaved, putIssued[Len(putIssued)])
        /\ putCall' = [putCall EXCEPT !.saved = @ + 1]
        /\ putIssued' = IF done THEN putIssued
                        ELSE Append(putIssued, nextItem(putCall'))
        /\ putReturn' = IF done THEN putSaved' ELSE putReturn
        /\ putPc' = IF done THEN "returned" ELSE "await"
        /\ batchError' = IF done THEN NoError ELSE batchError
  /\ UNCHANGED <<authVars, panelVars, pollVars, historyVars, appVars, errorMessage, sampleVars,
                 bufferRef, lastSyncAt, watchVars, isFlushingRef, calls,
                 netVars, online, failures>>

\* the awaited create call rejects: the function throws TrackPointBatchError
\* and issues no further call
PutItemFail ==
  /\ putPc = "await"
  /\ putPc' = "threw"
  /\ batchError' = batchErrorOf(putCall)
  /\ UNCHANGED <<authVars, panelVars, pollVars, historyVars, putCall, putSaved, putIssued,
                 putReturn, appVars, errorMessage, sampleVars, bufferRef,
                 lastSyncAt, watchVars, isFlushingRef, calls, netVars, online,
                 failures>>

BatchNext ==
  \/ \E items \in BatchInputs : PutTrackPoints(items)
  \/ PutItemOk
  \/ PutItemFail

BatchSpec == Init /\ [][BatchNext]_vars

\* ---------------------------------------------------------- history panel

UNKNOWN_NICKNAME == "unknown"

\* String.prototype.trim on the nicknames of the model
trim(nickname) == IF nickname = " guest " THEN "guest" ELSE nickname

\* normalizeNickname: the trimmed nickname, or UNKNOWN_NICKNAME when it is
\* missing or empty
normalizeNickname(nickname) ==
  IF nickname = NullNickname \/ trim(nickname) = "" THEN UNKNOWN_NICKNAME
  ELSE trim(nickname)

\* the keys an empty object literal answers for without owning them
ObjectPrototypeKeys == {"constructor"}

\* the result of adding 1 to something that is not a number: a string
TextCount == -1

\* historyContributors: (acc[key] ?? 0) + 1 on the object literal acc; a
\* key the object inherits is not nullish, and adding 1 to it gives a string
nextCount(acc, key) ==
  IF key \in DOMAIN acc
  THEN IF acc[key] = TextCount THEN TextCount ELSE acc[key] + 1
  ELSE IF key \in ObjectPrototypeKeys THEN TextCount
  ELSE 1

RECURSIVE countByNickname(_)
\* historyContributors: the reduce over historyPoints
countByNickname(pts) ==
  IF pts = <<>> THEN <<>>
  ELSE LET acc == countByNickname(SubSeq(pts, 1, Len(pts) - 1))
           key == normalizeNickname(pts[Len(pts)].nickname)
       IN [k \in DOMAIN acc \cup {key} |->
             IF k = key THEN nextCount(acc, key) ELSE acc[k]]

\* localeCompare on the normalized names of the model
nameRank(name) ==
  CASE name = "constructor" -> 1
    [] name = "guest" -> 2
    [] OTHER -> 3

\* historyContributors: the sort's comparator, b.count - a.count || by name;
\* the difference with a count that is not a number is NaN, which is falsy
contributorBefore(a, b) ==
  IF a.count # TextCount /\ b.count # TextCount /\ a.count # b.count
  THEN a.count > b.count
  ELSE nameRank(a.name) < nameRank(b.name)

RECURSIVE contributorsOf(_)
\* historyContributors: Object.entries(counts) as {name, count}, sorted
contributorsOf(counts) ==
  IF DOMAIN counts = {} THEN <<>>
  ELSE LET entries == {[name |-> k, count |-> counts[k]] : k \in DOMAIN counts}
           first == CHOOSE e \in entries :
                      \A o \in entries \ {e} : contributorBefore(e, o)
                                                 \/ ~contributorBefore(o, e)
       IN <<first>> \o contributorsOf([k \in DOMAIN counts \ {first.name}
                                         |-> counts[k]])

\* useMemo historyContributors
historyContributors ==
  IF panelPoints = <<>> THEN <<>>
  ELSE contributorsOf(countByNickname(panelPoints))

\* filteredHistoryPoints: all points, or those of the selected nickname
filterHistory(pts, selected) ==
  IF selected = NoSelection THEN pts
  ELSE SelectSeq(pts,
                 LAMBDA point : normalizeNickname(point.nickname) = selected)

\* useMemo filteredHistoryPoints, the history passed to MapView
filteredHistoryPoints == filterHistory(panelPoints, selectedHistoryNickname)

\* the loaded histories: up to MaxHistory points with any nicknames
PanelHistories ==
  UNION {{[i \in 1..n |-> [pointId |-> i, nickname |-> nick[i]]] :
            nick \in [1..n -> PointNicknames]} : n \in 0..MaxHistory}

\* loadHistory after the query: the selection is kept when the new history
\* has that nickname, and the history is replaced
HistoryLoaded(data) ==
  /\ LET availableNicknames ==
           {normalizeNickname(data[i].nickname) : i \in 1..Len(data)}
     IN selectedHistoryNickname' =
          IF /\ selectedHistoryNickname # NoSelection
             /\ selectedHistoryNickname \in availableNicknames
          THEN selectedHistoryNickname ELSE NoSelection
  /\ panelPoints' = data
  /\ UNCHANGED <<pollVars, historyVars, putVars, authVars,
                 recorderVars>>

\* handleContributorSelect(name), from the button of a listed contributor
HandleContributorSelect(name) ==
  /\ \E k \in 1..Len(historyContributors) : historyContributors[k].name = name
  /\ selectedHistoryNickname' =
       IF selectedHistoryNickname = name THEN NoSelection ELSE name
  /\ UNCHANGED <<panelPoints, pollVars, historyVars, putVars, authVars,
                 recorderVars>>

\* handleShowAllHistory, from the button shown above the contributors
HandleShowAllHistory ==
  /\ historyContributors # <<>>
  /\ selectedHistoryNickname' = NoSelection
  /\ UNCHANGED <<panelPoints, pollVars, historyVars, putVars, authVars,
                 recorderVars>>

PanelNext ==
  \/ \E data \in PanelHistories : HistoryLoaded(data)
  \/ \E name \in {normalizeNickname(n) : n \in PointNicknames} :
       HandleContributorSelect(name)
  \/ HandleShowAllHistory

PanelSpec == Init /\ [][PanelNext]_vars

\* ----------------------------------------------------- credential bootstrap

\* how a call ends: the caller, the fetchAuthSession calls it made, whether
\* its last session had credentials, and "client" or "error"
authEnd(call, credentials, outcome) ==
  [caller |-> call.caller, fetches |-> call.fetches,
   credentials |-> credentials, outcome |-> outcome]

\* getGraphQLClient() up to its first await: ensureAmplifyConfigured, then
\* fetchAuthSession()
GetGraphQLClient(caller) ==
  /\ authStarted < MaxClientCalls
  /\ authStarted' = authStarted + 1
  /\ isConfigured' = TRUE
  /\ authCalls' = Append(authCalls,
                         [caller |-> caller, pc |-> "first", fetches |-> 1])
  /\ UNCHANGED <<graphQLClient, authResult, pollVars, historyVars, putVars,
                 panelVars, recorderVars>>

\* the awaited fetchAuthSession of call i resolves, with or without
\* credentials: with them the cached client is returned; without them the
\* first fetch and the retry go on to the forced refresh, and the forced
\* refresh throws
FetchAuthSessionOk(i, credentials) ==
  /\ i \in 1..Len(authCalls)
  /\ LET call == authCalls[i]
     IN IF credentials
        THEN /\ graphQLClient' = TRUE
             /\ authResult' = authEnd(call, TRUE, "client")
             /\ authCalls' = RemoveAt(authCalls, i)
        ELSE IF call.pc \in {"first", "retry"}
        THEN /\ authCalls' = [authCalls EXCEPT ![i].pc = "refresh",
                                               ![i].fetches = @ + 1]
             /\ UNCHANGED <<graphQLClient, authResult>>
        ELSE /\ authResult' = authEnd(call, FALSE, "error")
             /\ authCalls' = RemoveAt(authCalls, i)
             /\ UNCHANGED graphQLClient
  /\ UNCHANGED <<isConfigured, authStarted, pollVars, historyVars, putVars,
                 panelVars, recorderVars>>

\* the awaited fetchAuthSession of call i rejects: the first fetch goes on
\* to the retry, the retry and the forced refresh rethrow
FetchAuthSessionFail(i) ==
  /\ i \in 1..Len(authCalls)
  /\ LET call == authCalls[i]
     IN IF call.pc = "first"
        THEN /\ authCalls' = [authCalls EXCEPT ![i].pc = "retry",
                                               ![i].fetches = @ + 1]
             /\ UNCHANGED authResult
        ELSE /\ authResult' = authEnd(call, FALSE, "error")
             /\ authCalls' = RemoveAt(authCalls, i)
  /\ UNCHANGED <<isConfigured, graphQLClient, authStarted, pollVars,
                 historyVars, putVars, panelVars, recorderVars>>

AuthNext ==
  \/ \E caller \in ApiCallers : GetGraphQLClient(caller)
  \/ \E i \in 1..MaxClientCalls, credentials \in BOOLEAN :
       FetchAuthSessionOk(i, credentials)
  \/ \E i \in 1..MaxClientCalls : FetchAuthSessionFail(i)

AuthSpec == Init /\ [][AuthNext]_vars

\* ------------------------------------------------------------ properties
InFlight(p) == \E i \in 1..Len(calls) :
                 \E k \in 1..Len(calls[i].items) : calls[i].items[k] = p
InBuffer(p) == \E k \in 1..Len(bufferRef) : bufferRef[k] = p

\* C1: over any sequence of flushes no point receives more than one
\* successful create-point call (a retry after a partial failure re-sends
\* only the points from the failed one onward).
C1_NoPointCreatedTwice == \A id \in PointIds : created[id] <= 1

\* C2: every retained point is in the pending buffer, in the in-flight
\* batch, or has been persisted; a point retained while a flush is in
\* flight is not removed when that flush completes.
C2_RetainedPointAccountedFor ==
  \A k \in 1..Len(points) :
    InBuffer(points[k]) \/ InFlight(points[k]) \/ created[points[k].pointId] > 0

\* the sample-handling specification: one session with permission granted,
\* every combination of coordinate, elapsed time and device-reported speed
AnySample ==
  \E lat \in Positions : \E dt \in Deltas : \E rawSpeed \in RawSpeeds :
    HandlePosition(lat, dt, rawSpeed)

SampleNext ==
  \/ AnySample
  \/ PermissionChange("granted")
  \/ \E nick \in Nicknames : StartSessionSubmit(nick)
  \/ CreateSessionOk
  \/ FlushTimerTick
  \/ CreatePointResolves

SampleSpec == Init /\ [][SampleNext]_vars

\* the watch-callback specification: samples that may repeat a timestamp
\* or report a negative speed, and geolocation errors
AnyWatchSample ==
  \E lat \in Positions : \E dt \in RepeatDeltas :
    \E rawSpeed \in SpeedReadings :
      /\ dt = 0 => lastPositionRef # NoPosition
      /\ HandlePosition(lat, dt, rawSpeed)

WatchNext ==
  \/ AnyWatchSample
  \/ \E code \in GeolocationErrors : HandleError(code)
  \/ PermissionChange("granted")
  \/ \E nick \in Nicknames : StartSessionSubmit(nick)
  \/ CreateSessionOk

WatchSpec == Init /\ [][WatchNext]_vars

\* the hook with a user that calls start() itself, next to the App events
\* that start and stop the recorder
ApiNext ==
  \/ \E supported \in BOOLEAN : StartCall(supported)
  \/ Sample
  \/ \E p \in Permissions : PermissionChange(p)
  \/ \E nick \in Nicknames : StartSessionSubmit(nick)
  \/ CreateSessionOk
  \/ EndSessionClick
  \/ EndSessionOk
  \/ EndSessionFail

ApiSpec == Init /\ [][ApiNext]_vars

\* the flush timer fires while it is armed, and a create-point call that
\* can resolve does resolve
FairSpec ==
  Spec /\ WF_vars(FlushTimerTick) /\ WF_vars(CreatePointResolves)

\* C3: eventual delivery: when the client is eventually online for good
\* (create-point calls then succeed), every retained point is eventually
\* persisted by some scheduled or triggered flush.
C3_EventualDelivery ==
  (<>[]online) =>
    \A id \in PointIds : (id < nextPointId) ~> (created[id] > 0)

\* C4: the end-session mutation is issued only after the final flush has
\* completed: at the step that issues it no create-point batch is in flight.
C4_MutationAfterFinalFlush ==
  [][(endPc # "mutation" /\ endPc' = "mutation") => Len(calls') = 0]_vars

\* C5: at most one create-point batch is in flight at any time, and no
\* point is in two batches in flight.
C5_AtMostOneBatchInFlight ==
  /\ Len(calls) <= 1
  /\ \A i, j \in 1..Len(calls) :
       i # j => \A k \in 1..Len(calls[i].items) :
                  \A m \in 1..Len(calls[j].items) :
                    calls[i].items[k].pointId # calls[j].items[m].pointId

\* a flush is in flight, newer points wait in the buffer, and the timer
\* and the network would let another flush start
C5_Witness ==
  /\ Len(calls) = 1
  /\ isFlushingRef
  /\ Len(bufferRef) > Len(calls[1].items)
  /\ flushTimer # 0
  /\ online

\* C6: a flushNow() request made while another flush is in flight does not
\* complete before that flush has completed: endSession, which awaits such
\* a request, has not gone on to its mutation at the end of the step.
C6_CoalescedRequestAwaits ==
  [][(~isEnding /\ isEnding' /\ isFlushingRef) => endPc' # "mutation"]_vars

\* C7: the order in which points are first persisted is the order in which
\* they were retained (point ids count the retained samples), within one
\* flush and across failed and retried flushes.
C7_PersistedInRetentionOrder ==
  /\ \A a, b \in 1..Len(firstOrder) : a < b => firstOrder[a] < firstOrder[b]
  /\ \A i \in 1..Len(calls) :
       /\ \A k, m \in 1..Len(calls[i].items) :
            k < m => calls[i].items[k].pointId < calls[i].items[m].pointId
       /\ \A k \in 1..calls[i].saved : created[calls[i].items[k].pointId] > 0

\* all points persisted, one of them re-sent after a failed flush
C7_Witness ==
  /\ Len(firstOrder) = MaxPoints
  /\ failures > 0
  /\ \E id \in PointIds : created[id] > 1

\* C8: whenever the session is absent or has ended the recorder is Idle:
\* no location watch is registered and it is not tracking.
C8_IdleWithoutActiveSession ==
  ~isSessionActive(session) => (watchIdRef = 0 /\ ~isTracking)

\* C9: a retained point carries the track identifier and nickname of the
\* session that is current when its sample arrives.
C9_PointLabelledWithCurrentSession ==
  [][Len(points') > Len(points) =>
       /\ points'[Len(points')].trackId = session.sessionId
       /\ points'[Len(points')].nickname = session.nickname]_vars

\* C10: a sample whose speed is slow or unknown, less than 25 m from the
\* last retained point and less than 180,000 ms after it, is not retained.
C10_StagnationSuppressed ==
  [][(/\ now' # now
      /\ Len(points) > 0
      /\ movementState' = "slow"
      /\ getDistanceMeters(points[Len(points)].lat, lastPositionRef'.lat)
           < SLOW_MOVEMENT_MIN_DISTANCE_M
      /\ now' - points[Len(points)].ts < SLOW_MOVEMENT_MIN_INTERVAL_MS)
     => points' = points]_vars

\* C11: a sample is retained (appended to the displayed points and to the
\* pending buffer) whenever it is the first sample of the session, or the
\* movement state it gives is fast, or it is at least 25 m from the last
\* retained point, or at least 180,000 ms after it.
C11_RetainedWhenSuppressionFails ==
  [][(/\ now' # now
      /\ \/ Len(points) = 0
         \/ movementState' = "fast"
         \/ getDistanceMeters(points[Len(points)].lat, lastPositionRef'.lat)
              >= 25
         \/ now' - points[Len(points)].ts >= 180000)
     => /\ Len(points') = Len(points) + 1
        /\ SubSeq(points', 1, Len(points)) = points
        /\ points'[Len(points')].ts = lastPositionRef'.timestamp
        /\ points'[Len(points')].lat = lastPositionRef'.lat
        /\ Len(bufferRef') > 0
        /\ bufferRef'[Len(bufferRef')] = points'[Len(points')]]_vars

\* a stationary slow device whose last two retained points are 180,000 ms
\* or more apart, the earlier one still waiting in the buffer
C11_Witness ==
  /\ Len(points) >= 2
  /\ Len(bufferRef) >= 2
  /\ movementState = "slow"
  /\ points[Len(points)].lat = points[Len(points) - 1].lat
  /\ points[Len(points)].ts - points[Len(points) - 1].ts >= 180000

C14_PartialBatchError ==
  [][(failures' # failures /\ errorMessage' = "flush") =>
       \E i \in 1..Len(calls) :
         LET items == calls[i].items
             N == calls[i].saved + 1
         IN /\ calls' = RemoveAt(calls, i)
            /\ created' = created
            /\ batchError'.completed = SubSeq(items, 1, N - 1)
            /\ batchError'.pending = SubSeq(items, N, Len(items))
            /\ batchError'.completed \o batchError'.pending = items
            /\ \A k \in 1..(N - 1) : created[items[k].pointId] > 0]_vars

\* a batch of three failed at its second item: one completed, two pending
C14_Witness ==
  /\ Len(batchError.completed) = 1
  /\ Len(batchError.pending) = 2
  /\ created[batchError.completed[1].pointId] > 0
  /\ created[batchError.pending[1].pointId] = 0
  /\ calls = <<>>

C16_OnlineEventStartsFlush ==
  [][(/\ ~online
      /\ online'
      /\ session # NoSession
      /\ Len(bufferRef) > 0
      /\ ~isFlushingRef)
     => /\ Len(calls') = Len(calls) + 1
        /\ calls'[Len(calls')].items = bufferRef
        /\ calls'[Len(calls')].saved = 0
        /\ isFlushingRef'
        /\ bufferRef' = bufferRef]_vars

\* offline with a session, two buffered points and nothing in flight, the
\* recorder stopped and no timer armed: the state the online event acts on
C16_Witness ==
  /\ ~online
  /\ session # NoSession
  /\ Len(bufferRef) >= 2
  /\ ~isFlushingRef
  /\ calls = <<>>
  /\ ~isTracking
  /\ flushTimer = 0

\* C17: a flushNow() that finds the pending buffer empty or the client
\* offline issues no create-point call and does not take the in-flight
\* guard; the timer tick and the online listener, which do nothing but
\* call flushNow(), then leave the calls, the buffer, the displayed points,
\* the last-sync timestamp, the guard and the error message unchanged.
C17_SkippedFlushIsNoOp ==
  [][/\ Len(calls') > Len(calls) => (online' /\ Len(bufferRef') > 0)
     /\ (~isFlushingRef /\ isFlushingRef') => Len(calls') > Len(calls)
     /\ ((FlushTimerTick \/ OnlineEvent) /\ (Len(bufferRef) = 0 \/ ~online'))
          => UNCHANGED <<calls, bufferRef, points, lastSyncAt,
                         isFlushingRef, errorMessage>>]_vars

\* a timer is armed and the guard is free while the client is offline
\* with a buffered point: the tick that flushNow() skips
C17_Witness ==
  /\ flushTimer # 0
  /\ ~online
  /\ Len(bufferRef) > 0
  /\ ~isFlushingRef
  /\ calls = <<>>
  /\ session # NoSession

\* C19: the polling interval handed to the live poller is 15,000 ms when
\* the movement state is fast and 60,000 ms otherwise, equals the
\* recorder's flush interval, and is 60,000 ms while the recorder is
\* stopped.
C19_PollingIntervalFollowsMovementState ==
  LET pollingIntervalMs == liveTrackPollingInterval(movementState)
  IN /\ pollingIntervalMs = IF movementState = "fast" THEN 15000 ELSE 60000
     /\ pollingIntervalMs = flushIntervalMs(movementState)
     /\ isTracking => pollingIntervalMs = flushTimer
     /\ ~isTracking => pollingIntervalMs = 60000

\* tracking in movement state fast with two points retained
C19_Witness ==
  /\ isTracking
  /\ movementState = "fast"
  /\ Len(points) = 2
  /\ liveTrackPollingInterval(movementState) = FAST_SYNC_INTERVAL_MS

\* C18: after a successful poll the grouping has exactly the track
\* identifiers of the query result other than the excluded one as keys
\* (none when the result is empty or holds the caller's points only);
\* each group holds exactly that track's points, and the last entry of a
\* group, which the map draws as the peer's marker, is a chronologically
\* latest point of the track, whatever the order of the query result.
C18_PollerGrouping ==
  [][lastFetchedAt' # lastFetchedAt =>
       LET raw == pollResult'
           keys == {raw[i].trackId : i \in 1..Len(raw)} \ {session.sessionId}
       IN /\ DOMAIN grouped' = keys
          /\ \A t \in keys :
               /\ Len(grouped'[t]) > 0
               /\ \A k \in 1..Len(grouped'[t]) : grouped'[t][k].trackId = t
               /\ \A point \in PollPoints :
                    point.trackId = t =>
                      Cardinality({k \in 1..Len(grouped'[t]) :
                                     grouped'[t][k] = point})
                        = Cardinality({i \in 1..Len(raw) : raw[i] = point})
               /\ \A i \in 1..Len(raw) :
                    raw[i].trackId = t
                      => raw[i].ts <= peerMarker(grouped'[t]).ts]_vars

\* the caller's session is track 1; the query returned points of tracks 1,
\* 2 and 3, a later point of a peer before an earlier one; the grouping
\* has the keys 2 and 3
C18_Witness ==
  /\ session.sessionId = 1
  /\ lastFetchedAt # 0
  /\ {pollResult[i].trackId : i \in 1..Len(pollResult)} = TrackIds
  /\ DOMAIN grouped = {2, 3}
  /\ \E i, j \in 1..Len(pollResult) :
       /\ i < j
       /\ pollResult[i].trackId = pollResult[j].trackId
       /\ pollResult[i].trackId # 1
       /\ pollResult[i].ts > pollResult[j].ts

\* C20: when listTrackPointsByTime with maximum count L has returned and
\* the backend holds M matching points, spread over any number of pages,
\* pages with no items but a continuation token included, the result has
\* min(L, M) points.
C20_HistoryComplete ==
  historyPc = "done" => Len(historyItems) = Min(historyLimit, apiMatches)

\* C22: after a flush has failed on point p_k, and until a later flush
\* succeeds, the whole batch, p_k and every later point of it included, is
\* at the head of the pending buffer in its original order, ahead of the
\* points retained after the flush began.
C22_FailedTailStaysBuffered ==
  batchError.pending # <<>> =>
    LET batch == batchError.completed \o batchError.pending
    IN /\ Len(bufferRef) >= Len(batch)
       /\ SubSeq(bufferRef, 1, Len(batch)) = batch
       /\ \A k \in (Len(batch) + 1)..Len(bufferRef) :
            bufferRef[k].pointId > batch[Len(batch)].pointId

\* a batch of two failed at its second point while a third point, retained
\* after the flush began, waits behind it
C22_Witness ==
  /\ Len(batchError.completed) = 1
  /\ Len(batchError.pending) = 1
  /\ Len(bufferRef) = 3
  /\ calls = <<>>
  /\ created[bufferRef[2].pointId] = 0

\* C24: a step that takes the recorder from Watching to Idle (stop(),
\* permission revocation, end of the session) with a non-empty buffer,
\* the client online and no flush in flight starts a create-point batch
\* that holds all buffered points.
C24_StopAttemptsFlush ==
  [][(/\ watchIdRef = 1
      /\ watchIdRef' = 0
      /\ Len(bufferRef) > 0
      /\ online
      /\ ~isFlushingRef)
     => /\ Len(calls') = Len(calls) + 1
        /\ calls'[Len(calls')] = [items |-> bufferRef, saved |-> 0]
        /\ isFlushingRef']_vars

\* permission was revoked while two points were buffered: the recorder is
\* idle and a batch of the whole buffer is in flight, nothing sent yet
C24_Witness ==
  /\ locationPermission = "denied"
  /\ watchIdRef = 0
  /\ ~isTracking
  /\ Len(bufferRef) >= 2
  /\ calls = <<[items |-> bufferRef, saved |-> 0]>>
  /\ lastSyncAt = 0

\* C25: the step in which stop() clears the watch leaves the pending
\* buffer and the displayed points unchanged and keeps every flush that is
\* in flight, with its guard; no sample is handled while no watch is
\* registered.
C25_StopIsSynchronous ==
  [][/\ (watchIdRef = 1 /\ watchIdRef' = 0) =>
          /\ bufferRef' = bufferRef
          /\ points' = points
          /\ Len(calls') >= Len(calls)
          /\ SubSeq(calls', 1, Len(calls)) = calls
          /\ isFlushingRef => isFlushingRef'
     /\ Len(points') > Len(points) => watchIdRef = 1]_vars

\* the recorder was stopped while a flush was in flight; the flush went on
\* and its first point has been persisted since
C25_Witness ==
  /\ watchIdRef = 0
  /\ ~isTracking
  /\ Len(calls) = 1
  /\ isFlushingRef
  /\ calls[1].saved >= 1
  /\ Len(points) = MaxPoints
  /\ Len(calls[1].items) < Len(bufferRef)

\* C27: a step in which a create-point batch fails (its call ends and
\* nothing is persisted) calls the error callback once, records no
\* last-sync timestamp and releases the in-flight guard; the last-sync
\* timestamp changes only in a step in which the last item of a batch is
\* persisted.
C27_FlushErrorsReported ==
  [][/\ (Len(calls') < Len(calls) /\ created' = created) =>
          /\ errorMessage' = "flush"
          /\ failures' = failures + 1
          /\ lastSyncAt' = lastSyncAt
          /\ ~isFlushingRef'
     /\ lastSyncAt' # lastSyncAt =>
          \E i \in 1..Len(calls) :
            /\ calls' = RemoveAt(calls, i)
            /\ calls[i].saved + 1 = Len(calls[i].items)
            /\ created'[nextItem(calls[i]).pointId]
                 = created[nextItem(calls[i]).pointId] + 1]_vars

\* a flush succeeded and recorded its time, a later one failed and was
\* reported: the guard is free and the failed batch still buffered
C27_Witness ==
  /\ lastSyncAt # 0
  /\ errorMessage = "flush"
  /\ batchError.pending # <<>>
  /\ ~isFlushingRef
  /\ calls = <<>>
  /\ Len(bufferRef) > 0

\* C23: whenever a session is active, location permission is granted and
\* no end-session attempt is running, the recorder eventually is Watching
\* (a location watch is registered), unless the session ends or the
\* permission is withdrawn first.
C23_EventuallyWatching ==
  (/\ isSessionActive(session)
   /\ locationPermission = "granted"
   /\ endPc = "idle")
    ~> (\/ watchIdRef = 1
        \/ ~isSessionActive(session)
        \/ locationPermission # "granted")

\* C26: a geolocation failure hands the error callback a message that
\* differs for each of the three error codes and changes nothing else:
\* the watch stays registered, and isTracking, the movement state, the
\* speed, the flush timer, the pending buffer, the displayed points and
\* the calls in flight are unchanged.
C26_GeolocationErrorReported ==
  [][/\ \A c1, c2 \in GeolocationErrors :
          c1 # c2 => geolocationMessage(c1) # geolocationMessage(c2)
     /\ (/\ errorMessage' # errorMessage
         /\ errorMessage' \in {geolocationMessage(c) : c \in GeolocationErrors})
        => /\ watchIdRef = 1
           /\ UNCHANGED <<watchIdRef, handlerSession, isTracking,
                          movementState, speedMps, flushTimer, bufferRef,
                          points, calls, isFlushingRef, lastSyncAt>>]_vars

\* a timeout was reported while the recorder was tracking with two points
\* buffered; the watch is still registered
C26_Witness ==
  /\ errorMessage = geolocationMessage("TIMEOUT")
  /\ watchIdRef = 1
  /\ isTracking
  /\ Len(bufferRef) >= 2
  /\ Len(points) >= 2

\* C28: the speed of a sample is the device-reported speed when that is
\* present and non-negative; otherwise the distance to the previous raw
\* sample divided by the elapsed time, when a previous raw sample exists
\* and the elapsed time is positive; otherwise null, and then the movement
\* state is slow. A negative reported speed is never the speed.
C28_SpeedSelection ==
  [][nextPointId' # nextPointId =>
       LET raw == lastPositionRef'.speed
           elapsed == lastPositionRef'.timestamp - lastPositionRef.timestamp
           expected ==
             IF raw >= 0 THEN raw
             ELSE IF lastPositionRef # NoPosition /\ elapsed > 0
                  THEN (Abs(lastPositionRef'.lat - lastPositionRef.lat)
                          * 1000000) \div elapsed
                  ELSE NoSpeed
       IN /\ speedMps' = expected
          /\ speedMps' = NoSpeed => movementState' = "slow"
          /\ (raw # NoSpeed /\ raw < 0) => speedMps' # raw]_vars

\* a sample with a negative reported speed and the timestamp of the
\* previous sample: the speed is null and the state slow
C28_Witness ==
  /\ Len(points) >= 2
  /\ points[Len(points)].ts = points[Len(points) - 1].ts
  /\ lastPositionRef.speed = -3000
  /\ speedMps = NoSpeed
  /\ movementState = "slow"

\* C30: listTrackPointsByTime never holds more than L points; each page
\* request asks for at most min(remaining, 1000) items, remaining being L
\* less the points collected; for L <= 0 no request is issued and the
\* result is empty.
C30_HistoryWithinLimit ==
  /\ Len(historyItems) <= historyLimit
  /\ historyRemaining = historyLimit - Len(historyItems)
  /\ historyPc = "loop" =>
       /\ historyRemaining >= 1
       /\ pageLimit(historyRemaining) = Min(historyRemaining, 1000)
  /\ \A remaining \in 1..(MAX_PAGE_SIZE + 1) :
       pageLimit(remaining) = Min(remaining, 1000)
  /\ historyLimit <= 0 => (historyPages = 0 /\ historyItems = <<>>)

\* a full result collected over two or more pages while the backend holds
\* more matching points than the limit
C30_Witness ==
  /\ historyPc = "done"
  /\ historyLimit >= 2
  /\ Len(historyItems) = historyLimit
  /\ apiMatches > historyLimit
  /\ historyPages >= 2

\* C21: the history points shown after a successful loadHistory are a
\* permutation of the points the query returned, sorted ascending by
\* timestamp; while the query runs and when it fails the history points
\* loaded before are left unchanged, and the failure sets an error message.
C21_HistorySortedOrKept ==
  [][/\ historyPc' = "done" =>
          LET data == historyData(historyItems', apiTs')
          IN /\ Len(historyPoints') = Len(data)
             /\ {historyPoints'[i] : i \in 1..Len(historyPoints')}
                  = {data[i] : i \in 1..Len(data)}
             /\ \A i, j \in 1..Len(historyPoints') :
                  i < j => historyPoints'[i].ts <= historyPoints'[j].ts
     /\ historyPc' \in {"loop", "failed"} => historyPoints' = historyPoints
     /\ (historyPc = "loop" /\ historyPc' = "failed") =>
          /\ historyPoints' = historyPoints
          /\ errorMessage' = "history"]_vars

\* a query has failed while the history points shown are those of an
\* earlier query that returned a later point before an earlier one
C21_Witness ==
  /\ historyPc = "failed"
  /\ errorMessage = "history"
  /\ Len(historyPoints) >= 2
  /\ \E i, j \in 1..Len(historyPoints) :
       /\ i < j
       /\ historyPoints[i].pointId > historyPoints[j].pointId
       /\ historyPoints[i].ts < historyPoints[j].ts

\* C29: putTrackPoints sends one create-point call per input item, one at a
\* time in input order: the calls issued are a prefix of the input, and
\* while a call is awaited it is the only one not yet saved; on full success
\* it returns one saved point per input item in input order; for an empty
\* input it issues no call and returns an empty list.
C29_SequentialBatch ==
  /\ Len(putIssued) <= Len(putCall.items)
  /\ putIssued = SubSeq(putCall.items, 1, Len(putIssued))
  /\ putSaved = SubSeq(putCall.items, 1, Len(putSaved))
  /\ Len(putIssued) <= Len(putSaved) + 1
  /\ putPc = "await" => Len(putIssued) = Len(putSaved) + 1
  /\ putPc = "returned" =>
       /\ putReturn = putCall.items
       /\ putIssued = putCall.items
  /\ putCall.items = <<>> => (putIssued = <<>> /\ putReturn = <<>>)

\* a call with three items, not all the same, has returned
C29_Witness ==
  /\ putPc = "returned"
  /\ Len(putCall.items) = 3
  /\ putCall.items[1] # putCall.items[3]
  /\ putReturn = putCall.items

RECURSIVE SumCounts(_)
SumCounts(list) ==
  IF list = <<>> THEN 0 ELSE list[1].count + SumCounts(Tail(list))

\* C31: for any loaded history each distinct normalized nickname appears
\* exactly once in the contributor list, with a count equal to the number
\* of history points of that nickname; the counts sum to the number of
\* history points; the history passed to the map is all points when no
\* nickname is selected and the points of the selected nickname otherwise.
C31_ContributorCounts ==
  LET pointsOf(name) ==
        {i \in 1..Len(panelPoints) :
           normalizeNickname(panelPoints[i].nickname) = name}
      names == {normalizeNickname(panelPoints[i].nickname) :
                  i \in 1..Len(panelPoints)}
      list == historyContributors
  IN /\ \A name \in names :
          Cardinality({k \in 1..Len(list) : list[k].name = name}) = 1
     /\ \A k \in 1..Len(list) :
          /\ list[k].name \in names
          /\ list[k].count = Cardinality(pointsOf(list[k].name))
     /\ SumCounts(list) = Len(panelPoints)
     /\ selectedHistoryNickname = NoSelection =>
          filteredHistoryPoints = panelPoints
     /\ selectedHistoryNickname # NoSelection =>
          \A i \in 1..Len(panelPoints) :
            (i \in pointsOf(selectedHistoryNickname))
              <=> (\E j \in 1..Len(filteredHistoryPoints) :
                     filteredHistoryPoints[j] = panelPoints[i])

\* C32: one getGraphQLClient call fetches the auth session again at most
\* once after a failure, so it calls fetchAuthSession at most twice; it
\* returns a client only when the session it ends with has credentials and
\* fails with an error otherwise.
C32_BootstrapRetriesOnce ==
  /\ \A i \in 1..Len(authCalls) : authCalls[i].fetches <= 2
  /\ authResult.fetches <= 2
  /\ authResult.outcome = "client" => authResult.credentials
  /\ authResult.outcome = "error" => ~authResult.credentials

\* C33: the displayed point list is append-only while a session exists:
\* every step (sample, flush success or failure, stop, start, timer tick,
\* online event) leaves it unchanged or appends exactly one point at its
\* end; it is emptied only when the session becomes absent.
C33_DisplayedAppendOnly ==
  [][\/ points' = points
     \/ /\ Len(points') = Len(points) + 1
        /\ SubSeq(points', 1, Len(points)) = points
     \/ /\ points' = <<>>
        /\ session # NoSession
        /\ session' = NoSession]_vars

\* three points are displayed after a failed flush, a successful flush and
\* the end of the session
C33_Witness ==
  /\ Len(points) = 3
  /\ failures >= 1
  /\ lastSyncAt # 0
  /\ session.endedAt

\* C34: in every reachable state the pending buffer is a contiguous suffix
\* of the displayed point list, in the same order: every point not yet
\* persisted is displayed, and a retained sample is appended to both lists
\* in the same step.
C34_BufferIsSuffixOfDisplayed ==
  /\ Len(bufferRef) <= Len(points)
  /\ bufferRef = SubSeq(points, Len(points) - Len(bufferRef) + 1, Len(points))

\* flushed points are displayed ahead of two pending ones
C34_Witness ==
  /\ Len(points) = 3
  /\ Len(bufferRef) = 2
  /\ lastSyncAt # 0
  /\ bufferRef[1] = points[2]

\* C35: at most one geolocation watch is registered at any time; start()
\* while a watch is registered registers nothing and changes no state;
\* start() with no session or without geolocation support registers no
\* watch and reports the reason through the error callback.
C35_AtMostOneWatch ==
  [][/\ watches' <= 1
     /\ (watches' = 1) <=> (watchIdRef' = 1)
     /\ (startCalls' # startCalls /\ watchIdRef = 1) =>
          UNCHANGED <<queryVars, batchError, appVars, errorMessage,
                      sampleVars, bufferRef, lastSyncAt, isTracking,
                      watchIdRef, handlerSession, flushTimer, watches,
                      isFlushingRef, calls, netVars, online, failures>>
     /\ (startCalls' # startCalls /\ session = NoSession) =>
          /\ errorMessage' = "start: no session"
          /\ watches' = watches
          /\ watchIdRef' = watchIdRef
     /\ (startCalls' # startCalls /\ errorMessage' # errorMessage) =>
          /\ errorMessage' \in {"start: no session", "start: unsupported"}
          /\ watches' = watches
          /\ watchIdRef' = watchIdRef]_vars

\* start() was called twice while the one watch was registered
C35_Witness ==
  /\ startCalls = 2
  /\ watches = 1
  /\ watchIdRef = 1
  /\ errorMessage = "none"
  /\ Len(points) >= 1

\* C36: isTracking is true exactly when a geolocation watch is registered;
\* whenever the recorder is not tracking the movement state is slow, the
\* current speed is null and the previous raw sample is forgotten; a watch
\* starts without a previous sample, so the first sample after a restart
\* derives no speed from a sample taken before the stop.
C36_IdleForgetsMovement ==
  [][/\ isTracking' <=> (watchIdRef' = 1)
     /\ ~isTracking' =>
          /\ movementState' = "slow"
          /\ speedMps' = NoSpeed
          /\ lastPositionRef' = NoPosition
     /\ (watchIdRef = 0 /\ watchIdRef' = 1) => lastPositionRef' = NoPosition
     /\ (nextPointId' # nextPointId /\ lastPositionRef = NoPosition) =>
          /\ speedMps' = NoSpeed
          /\ movementState' = "slow"]_vars

\* the recorder was stopped and restarted after earlier samples, and the
\* one sample since the restart gave no speed
C36_Witness ==
  /\ isTracking
  /\ Len(points) = 3
  /\ points[2].lat # points[1].lat
  /\ lastPositionRef # NoPosition
  /\ speedMps = NoSpeed
  /\ movementState = "slow"

\* C37: the in-flight flush guard is always released: the guard is set
\* exactly while a batch is in flight, the step that ends a batch, by
\* success or by failure, clears it, and a flush in flight while the client
\* stays online ends, so a later flush request is not blocked forever.
C37_GuardAlwaysReleased ==
  /\ [](isFlushingRef <=> (Len(calls) = 1))
  /\ [][Len(calls') < Len(calls) => ~isFlushingRef']_vars
  /\ (isFlushingRef /\ online) ~> (~isFlushingRef \/ ~online)

\* a flush is in flight after an earlier flush has failed
C37_Witness ==
  /\ batchError.pending # <<>>
  /\ isFlushingRef
  /\ Len(calls) = 1
  /\ calls[1].saved >= 1

\* C38: listTrackPointsByTime terminates when the API answers its requests:
\* each loop iteration either stops (count satisfied, no continuation
\* token, or empty page) or adds at least one item, and with a maximum
\* count L it issues at most L page requests.
C38_HistoryTerminates ==
  /\ [](historyPages <= historyLimit)
  /\ [][(historyPages' = historyPages + 1 /\ historyPc' = "loop") =>
         Len(historyItems') > Len(historyItems)]_vars
  /\ (historyPc = "loop") ~> (historyPc # "loop")

\* a call with limit 3 has returned after three page requests
C38_Witness ==
  /\ historyPc = "done"
  /\ historyLimit = 3
  /\ historyPages = 3

====
